---------------------------- MODULE Spec2Model ----------------------------
(* Model of src/https_client.c: the buffered download of a remote file     *)
(* to a flash file, with retry and exponential backoff.                    *)
(*                                                                         *)
(* Module-level C state (file_handle, total_bytes, storage_error,          *)
(* write_buffer, buffer_offset) and the position of https_download_file    *)
(* are the variables.  The transport client, the file system and the timer *)
(* are the environment: every value they hand back is an input chosen with *)
(* \E from a small set.  Sizes are scaled down (WRITE_BUFFER_SIZE,         *)
(* MIN_SPEED_BPS); MAX_RETRIES and BACKOFF_BASE_MS keep the source values. *)
EXTENDS Integers, Sequences, FiniteSets, TLC

(* ------------------------------ constants ------------------------------ *)
MAX_RETRIES == 3
BACKOFF_BASE_MS == 1000
\* scaled: 32768 in the source
WRITE_BUFFER_SIZE == 2
\* scaled: 400 * 1024 bytes per second in the source
MIN_SPEED_BPS == 2

(* -------------------------------- bounds ------------------------------- *)
\* events delivered to the handler during one perform call
MaxEvents == 3
\* longest data chunk of one HTTP_EVENT_ON_DATA
MaxChunk == 3
\* largest free space esp_spiffs_info reports
MaxFree == 2
\* longest elapsed time of a successful attempt, in seconds
MaxElapsed == 2

ESP_OK == "ESP_OK"
ESP_FAIL == "ESP_FAIL"
NULL == "NULL"
OPEN == "OPEN"
\* content of a file left at the destination before the call
StaleContent == <<99>>

InfoEvents ==
    {"HTTP_EVENT_ERROR", "HTTP_EVENT_ON_CONNECTED", "HTTP_EVENT_HEADER_SENT",
     "HTTP_EVENT_ON_HEADER", "HTTP_EVENT_DISCONNECTED", "HTTP_EVENT_REDIRECT"}

\* the payloads of a data event.  The code never looks at a byte (memcpy,
\* fwrite), so one payload per length stands for all: its bytes are 1, 2, ..
\* n, pairwise distinct, so that a lost, repeated or misplaced byte shows.
Chunks ==
    { [i \in 1..n |-> i] : n \in 0..MaxChunk }

\* no event dispatched yet
NoEvent ==
    [id |-> "none", data_null |-> TRUE, data_len |-> 0, info_ok |-> FALSE,
     free_space |-> 0, iters |-> <<>>]

VARIABLES
    pc,             \* position in https_download_file
    attempt,        \* loop counter of https_download_file
    ret,            \* status of the last esp_http_client_perform
    result,         \* value https_download_file returned
    file_handle,    \* NULL or OPEN
    total_bytes,
    storage_error,
    write_buffer,   \* array of WRITE_BUFFER_SIZE bytes
    buffer_offset,
    disk,           \* content of the destination file
    disk_exists,    \* the destination file exists
    events,         \* events dispatched by the current perform call
    evt,            \* the last of them and what the handler was given, while
                    \* the perform call runs
    \* history of the current invocation
    sleeps,         \* arguments of vTaskDelay, in ms
    performs,       \* calls of esp_http_client_perform
    outcomes,       \* <<ret, storage_error>> of every performed attempt
    clients,        \* transport clients initialised and not cleaned up
    sinks,          \* sinks opened and not closed
    inits, cleanups, opens, closes,
    warned,         \* the speed warning was logged
    \* history of the current attempt
    writes,         \* sizes of the fwrite requests
    delivered,      \* bytes of all data events
    latched_by      \* "none", "space" (free-space check) or "write" (short write)

globals == <<file_handle, total_bytes, storage_error, write_buffer, buffer_offset>>
control == <<pc, attempt, ret, result, events, evt>>
run_history == <<sleeps, performs, outcomes, clients, sinks, inits, cleanups,
                 opens, closes, warned>>
attempt_history == <<writes, delivered, latched_by>>
vars == <<globals, control, disk, disk_exists, run_history, attempt_history>>

Min(a, b) == IF a < b THEN a ELSE b

RECURSIVE Pow2(_)
Pow2(n) == IF n = 0 THEN 1 ELSE 2 * Pow2(n - 1)

RECURSIVE Sum(_)
Sum(s) == IF s = <<>> THEN 0 ELSE Head(s) + Sum(Tail(s))

(* ------------------------- the handler's state ------------------------- *)
\* The part of the state the event handler and flush_write_buffer touch;
\* iters lists, for the copy loop of one data event, buffer_offset at the
\* start of each iteration and the bytes the iteration copies.
Sess ==
    [total_bytes |-> total_bytes, storage_error |-> storage_error,
     write_buffer |-> write_buffer, buffer_offset |-> buffer_offset,
     disk |-> disk, writes |-> writes, latched_by |-> latched_by,
     iters |-> <<>>]

SetSess(s) ==
    /\ total_bytes' = s.total_bytes
    /\ storage_error' = s.storage_error
    /\ write_buffer' = s.write_buffer
    /\ buffer_offset' = s.buffer_offset
    /\ disk' = s.disk
    /\ writes' = s.writes
    /\ latched_by' = s.latched_by

\* fwrite(write_buffer, 1, n, file_handle) when the medium accepts `room`
\* more bytes: the count it returns
fwrite(n, room) == Min(n, room)

\* mutant: the fill level is reset only after a flush of a full buffer
flush_write_buffer_KeepTail(s, fh, room) ==
    IF fh /= NULL /\ s.buffer_offset > 0 /\ ~s.storage_error
    THEN LET written == fwrite(s.buffer_offset, room)
             s1 == [s EXCEPT
                      !.disk = @ \o SubSeq(s.write_buffer, 1, written),
                      !.writes = Append(@, s.buffer_offset)]
             s2 == IF written /= s.buffer_offset
                   THEN [s1 EXCEPT !.storage_error = TRUE,
                                   !.latched_by = "write"]
                   ELSE [s1 EXCEPT !.total_bytes = @ + written]
         IN  IF s.buffer_offset = WRITE_BUFFER_SIZE
             THEN [s2 EXCEPT !.buffer_offset = 0]
             ELSE s2
    ELSE s

\* mutant: the fill level is reset only when the write was complete
flush_write_buffer_NoResetOnShort(s, fh, room) ==
    IF fh /= NULL /\ s.buffer_offset > 0 /\ ~s.storage_error
    THEN LET written == fwrite(s.buffer_offset, room)
             s1 == [s EXCEPT
                      !.disk = @ \o SubSeq(s.write_buffer, 1, written),
                      !.writes = Append(@, s.buffer_offset)]
         IN  IF written /= s.buffer_offset
             THEN [s1 EXCEPT !.storage_error = TRUE, !.latched_by = "write"]
             ELSE [s1 EXCEPT !.total_bytes = @ + written, !.buffer_offset = 0]
    ELSE s

\* mutant: the bytes of a short write are counted too
flush_write_buffer_CountsShort(s, fh, room) ==
    IF fh /= NULL /\ s.buffer_offset > 0 /\ ~s.storage_error
    THEN LET written == fwrite(s.buffer_offset, room)
             s1 == [s EXCEPT
                      !.disk = @ \o SubSeq(s.write_buffer, 1, written),
                      !.writes = Append(@, s.buffer_offset),
                      !.total_bytes = @ + written]
             s2 == IF written /= s.buffer_offset
                   THEN [s1 EXCEPT !.storage_error = TRUE,
                                   !.latched_by = "write"]
                   ELSE s1
         IN  [s2 EXCEPT !.buffer_offset = 0]
    ELSE s

\* flush_write_buffer(): fh is file_handle, room the bytes the sink accepts
flush_write_buffer(s, fh, room) ==
    IF fh /= NULL /\ s.buffer_offset > 0 /\ ~s.storage_error
    THEN LET written == fwrite(s.buffer_offset, room)
             s1 == [s EXCEPT
                      !.disk = @ \o SubSeq(s.write_buffer, 1, written),
                      !.writes = Append(@, s.buffer_offset)]
             s2 == IF written /= s.buffer_offset
                   THEN [s1 EXCEPT !.storage_error = TRUE,
                                   !.latched_by = "write"]
                   ELSE [s1 EXCEPT !.total_bytes = @ + written]
         IN  [s2 EXCEPT !.buffer_offset = 0]
    ELSE s

\* memcpy(write_buffer + off, ptr, n)
memcpy(buf, off, src, n) ==
    [i \in 1..Len(buf) |->
        IF i > off /\ i <= off + n THEN src[i - off] ELSE buf[i]]

\* The copy loop of HTTP_EVENT_ON_DATA.  rest is the part of the chunk not
\* yet copied, k counts the flushes of this event; the failAt-th of them
\* finds room for only `room` bytes, the others are accepted whole.
RECURSIVE CopyLoop(_, _, _, _, _, _)

\* mutant: a full buffer is flushed only when the next bytes arrive
CopyLoop_FlushLate(s, fh, rest, k, failAt, room) ==
    IF Len(rest) > 0 /\ ~s.storage_error
    THEN LET full == s.buffer_offset = WRITE_BUFFER_SIZE
             s0 == IF full
                   THEN flush_write_buffer(s, fh,
                            IF k + 1 = failAt THEN room ELSE WRITE_BUFFER_SIZE)
                   ELSE s
             space_left == WRITE_BUFFER_SIZE - s0.buffer_offset
             to_copy == IF Len(rest) < space_left THEN Len(rest) ELSE space_left
             s1 == [s0 EXCEPT
                      !.write_buffer = memcpy(@, s0.buffer_offset, rest, to_copy),
                      !.buffer_offset = @ + to_copy,
                      !.iters = Append(@, <<s0.buffer_offset, to_copy>>)]
         IN  IF s0.storage_error
             THEN s0
             ELSE CopyLoop(s1, fh, SubSeq(rest, to_copy + 1, Len(rest)),
                           IF full THEN k + 1 ELSE k, failAt, room)
    ELSE s

\* mutant: the copy is not clamped to the space left in the buffer
CopyLoop_NoClamp(s, fh, rest, k, failAt, room) ==
    IF Len(rest) > 0 /\ ~s.storage_error
    THEN LET to_copy == Len(rest)
             s1 == [s EXCEPT
                      !.write_buffer = memcpy(@, s.buffer_offset, rest, to_copy),
                      !.buffer_offset = @ + to_copy,
                      !.iters = Append(@, <<s.buffer_offset, to_copy>>)]
         IN  IF s1.buffer_offset = WRITE_BUFFER_SIZE
             THEN flush_write_buffer(s1, fh,
                      IF k + 1 = failAt THEN room ELSE WRITE_BUFFER_SIZE)
             ELSE s1
    ELSE s

CopyLoop(s, fh, rest, k, failAt, room) ==
    IF Len(rest) > 0 /\ ~s.storage_error
    THEN LET space_left == WRITE_BUFFER_SIZE - s.buffer_offset
             to_copy == IF Len(rest) < space_left THEN Len(rest) ELSE space_left
             s1 == [s EXCEPT
                      !.write_buffer = memcpy(@, s.buffer_offset, rest, to_copy),
                      !.buffer_offset = @ + to_copy,
                      !.iters = Append(@, <<s.buffer_offset, to_copy>>)]
             full == s1.buffer_offset = WRITE_BUFFER_SIZE
             s2 == IF full
                   THEN flush_write_buffer(s1, fh,
                            IF k + 1 = failAt THEN room ELSE WRITE_BUFFER_SIZE)
                   ELSE s1
         IN  CopyLoop(s2, fh, SubSeq(rest, to_copy + 1, Len(rest)),
                      IF full THEN k + 1 ELSE k, failAt, room)
    ELSE s

\* mutant: storage_error is recomputed for every chunk instead of latched
OnData_RecomputesFlag(s, fh, isnull, data, info_ok, free_space, failAt, room) ==
    IF ~isnull /\ Len(data) > 0 /\ fh /= NULL
    THEN IF info_ok /\ free_space < Len(data)
         THEN [s EXCEPT !.storage_error = TRUE, !.latched_by = "space"]
         ELSE CopyLoop([s EXCEPT !.storage_error = FALSE], fh, data, 0,
                       failAt, room)
    ELSE s

\* mutant: a chunk that exactly fits the free space is refused
OnData_LatchesOnEqual(s, fh, isnull, data, info_ok, free_space, failAt, room) ==
    IF ~isnull /\ Len(data) > 0 /\ fh /= NULL /\ ~s.storage_error
    THEN IF info_ok /\ free_space <= Len(data)
         THEN [s EXCEPT !.storage_error = TRUE, !.latched_by = "space"]
         ELSE CopyLoop(s, fh, data, 0, failAt, room)
    ELSE s

\* mutant: the handler does not test file_handle
OnData_NoHandleCheck(s, fh, isnull, data, info_ok, free_space, failAt, room) ==
    IF ~isnull /\ Len(data) > 0 /\ ~s.storage_error
    THEN IF info_ok /\ free_space < Len(data)
         THEN [s EXCEPT !.storage_error = TRUE, !.latched_by = "space"]
         ELSE CopyLoop(s, fh, data, 0, failAt, room)
    ELSE s

\* case HTTP_EVENT_ON_DATA: evt->data is NULL (isnull) or points to data;
\* esp_spiffs_info answers ESP_OK (info_ok) with free_space bytes free, or fails
OnData(s, fh, isnull, data, info_ok, free_space, failAt, room) ==
    IF ~isnull /\ Len(data) > 0 /\ fh /= NULL /\ ~s.storage_error
    THEN IF info_ok /\ free_space < Len(data)
         THEN [s EXCEPT !.storage_error = TRUE, !.latched_by = "space"]
         ELSE CopyLoop(s, fh, data, 0, failAt, room)
    ELSE s

(* -------------------------------- Init --------------------------------- *)
Init ==
    /\ pc = "init"
    /\ attempt = 1
    /\ ret = ESP_FAIL
    /\ result = "none"
    /\ file_handle = NULL
    /\ write_buffer = [i \in 1..WRITE_BUFFER_SIZE |-> 0]
    \* the statics are zero after boot (lines 23-30); after an earlier call
    \* that buffered one byte behind a full flush and then ran out of space
    \* they are as that call left them
    /\ \E prior \in BOOLEAN :
         /\ total_bytes = IF prior THEN WRITE_BUFFER_SIZE ELSE 0
         /\ storage_error = prior
         /\ buffer_offset = IF prior THEN 1 ELSE 0
    /\ disk_exists \in BOOLEAN
    /\ disk = IF disk_exists THEN StaleContent ELSE <<>>
    /\ events = 0
    /\ evt = NoEvent
    /\ sleeps = <<>>
    /\ performs = 0
    /\ outcomes = <<>>
    /\ clients = 0
    /\ sinks = 0
    /\ inits = 0
    /\ cleanups = 0
    /\ opens = 0
    /\ closes = 0
    /\ warned = FALSE
    /\ writes = <<>>
    /\ delivered = <<>>
    /\ latched_by = "none"

(* --------------------- https_download_file, by step -------------------- *)
\* return from https_download_file
Return(r) ==
    /\ pc' = "done"
    /\ result' = r

\* esp_http_client_cleanup(client)
Cleanup ==
    /\ clients' = clients - 1
    /\ cleanups' = cleanups + 1

\* mutant: the loop runs one attempt too many
LoopContinues_OneMore(a) == a <= MAX_RETRIES + 1

\* the for loop's condition
LoopContinues(a) == a <= MAX_RETRIES

\* lines 132-136: esp_http_client_init
ClientInit ==
    /\ pc = "init"
    /\ \E ok \in BOOLEAN :
         IF ok
         THEN /\ clients' = clients + 1
              /\ inits' = inits + 1
              /\ pc' = "open"
              /\ UNCHANGED result
         ELSE /\ Return(ESP_FAIL)
              /\ UNCHANGED <<clients, inits>>
    /\ UNCHANGED <<evt, globals, attempt, ret, events, disk, disk_exists, sleeps, performs,
                   outcomes, sinks, cleanups, opens, closes, warned,
                   attempt_history>>

\* mutant: a failed fopen is treated like a failed transfer and retried
OpenSink_RetryOnFailure ==
    /\ pc = "open"
    /\ \E ok \in BOOLEAN :
         IF ok
         THEN /\ disk' = <<>>
              /\ disk_exists' = TRUE
              /\ file_handle' = OPEN
              /\ sinks' = sinks + 1
              /\ opens' = opens + 1
              /\ pc' = "start"
         ELSE /\ disk' = <<>>
              /\ disk_exists' = FALSE
              /\ file_handle' = NULL
              /\ pc' = "cleanup"
              /\ UNCHANGED <<sinks, opens>>
    /\ UNCHANGED <<evt, total_bytes, storage_error, write_buffer, buffer_offset,
                   attempt, ret, result, events, sleeps, performs, outcomes,
                   clients, cleanups, inits, closes, warned, attempt_history>>

\* lines 139-147: unlink, fopen(filepath, "wb")
OpenSink ==
    /\ pc = "open"
    /\ \E ok \in BOOLEAN :
         IF ok
         THEN /\ disk' = <<>>
              /\ disk_exists' = TRUE
              /\ file_handle' = OPEN
              /\ sinks' = sinks + 1
              /\ opens' = opens + 1
              /\ pc' = "start"
              /\ UNCHANGED <<result, clients, cleanups>>
         ELSE /\ disk' = <<>>
              /\ disk_exists' = FALSE
              /\ file_handle' = NULL
              /\ Cleanup
              /\ Return(ESP_FAIL)
              /\ UNCHANGED <<sinks, opens>>
    /\ UNCHANGED <<evt, total_bytes, storage_error, write_buffer, buffer_offset,
                   attempt, ret, events, sleeps, performs, outcomes,
                   inits, closes, warned, attempt_history>>

\* mutant: the session counters are not reset
StartAttempt_NoReset ==
    /\ pc = "start"
    /\ performs' = performs + 1
    /\ events' = 0
    /\ evt' = NoEvent
    /\ writes' = <<>>
    /\ delivered' = <<>>
    /\ latched_by' = "none"
    /\ pc' = "perform"
    /\ UNCHANGED <<globals, attempt, ret, result, disk, disk_exists,
                   sleeps, outcomes, clients, sinks, inits, cleanups, opens,
                   closes, warned>>

\* lines 149-154: reset of the session, call of esp_http_client_perform
StartAttempt ==
    /\ pc = "start"
    /\ total_bytes' = 0
    /\ storage_error' = FALSE
    /\ buffer_offset' = 0
    /\ performs' = performs + 1
    /\ events' = 0
    /\ evt' = NoEvent
    /\ writes' = <<>>
    /\ delivered' = <<>>
    /\ latched_by' = "none"
    /\ pc' = "perform"
    /\ UNCHANGED <<file_handle, write_buffer, attempt, ret, result, disk, disk_exists,
                   sleeps, outcomes, clients, sinks, inits, cleanups, opens,
                   closes, warned>>

\* mutant: HTTP_EVENT_ERROR latches storage_error
InfoEvent_ErrorLatches ==
    /\ pc = "perform"
    /\ events < MaxEvents
    /\ \E id \in InfoEvents :
         /\ evt' = [NoEvent EXCEPT !.id = id]
         /\ storage_error' = (storage_error \/ id = "HTTP_EVENT_ERROR")
    /\ events' = events + 1
    /\ UNCHANGED <<file_handle, total_bytes, write_buffer, buffer_offset, pc,
                   attempt, ret, result, disk, disk_exists, run_history,
                   attempt_history>>

\* _http_event_handler, the cases that only log
InfoEvent ==
    /\ pc = "perform"
    /\ events < MaxEvents
    /\ \E id \in InfoEvents : evt' = [NoEvent EXCEPT !.id = id]
    /\ events' = events + 1
    /\ UNCHANGED <<globals, pc, attempt, ret, result, disk, disk_exists, run_history,
                   attempt_history>>

\* line 66: the data event gets past the handler's guard
Handled(isnull, data) ==
    ~isnull /\ Len(data) > 0 /\ file_handle /= NULL /\ ~storage_error

\* _http_event_handler, case HTTP_EVENT_ON_DATA
DataEvent ==
    /\ pc = "perform"
    /\ events < MaxEvents
    /\ \E isnull \in BOOLEAN :
       \E data \in IF isnull THEN {<<>>} ELSE Chunks :
       \* esp_spiffs_info and fwrite answer only when they are called
       \E info_ok \in IF Handled(isnull, data) THEN BOOLEAN ELSE {FALSE} :
       \E free_space \in IF info_ok THEN 0..MaxFree ELSE {0} :
       \E failAt \in 0..(IF Handled(isnull, data)
                         THEN (buffer_offset + Len(data)) \div WRITE_BUFFER_SIZE
                         ELSE 0) :
       \E room \in IF failAt = 0 THEN {0} ELSE 0..(WRITE_BUFFER_SIZE - 1) :
         LET r == OnData(Sess, file_handle, isnull, data, info_ok,
                         free_space, failAt, room)
         IN  /\ SetSess(r)
             /\ delivered' = IF isnull THEN delivered ELSE delivered \o data
             /\ evt' = [id |-> "HTTP_EVENT_ON_DATA", data_null |-> isnull,
                        data_len |-> Len(data), info_ok |-> info_ok,
                        free_space |-> free_space, iters |-> r.iters]
    /\ events' = events + 1
    /\ UNCHANGED <<file_handle, pc, attempt, ret, result, disk_exists,
                   run_history>>

\* mutant: the finish event only logs
FinishEvent_NoFlush ==
    /\ pc = "perform"
    /\ events < MaxEvents
    /\ evt' = [NoEvent EXCEPT !.id = "HTTP_EVENT_ON_FINISH"]
    /\ events' = events + 1
    /\ UNCHANGED <<globals, pc, attempt, ret, result, disk, disk_exists,
                   run_history, attempt_history>>

\* _http_event_handler, case HTTP_EVENT_ON_FINISH
FinishEvent ==
    /\ pc = "perform"
    /\ events < MaxEvents
    /\ \E room \in 0..WRITE_BUFFER_SIZE :
         SetSess(flush_write_buffer(Sess, file_handle, room))
    /\ evt' = [NoEvent EXCEPT !.id = "HTTP_EVENT_ON_FINISH"]
    /\ events' = events + 1
    /\ UNCHANGED <<file_handle, pc, attempt, ret, result, disk_exists,
                   run_history, delivered>>

\* _http_event_handler called while no perform call runs and the sink is
\* not open (esp_http_client_cleanup dispatches HTTP_EVENT_DISCONNECTED; the
\* handler itself accepts any event): an event that only logs, a data event
\* with the shortest or the longest chunk, or a finish event; the free-space
\* query, if made, fails
StrayEvent ==
    /\ pc \in {"init", "open", "decide", "cleanup", "done"}
    /\ \/ SetSess(Sess)
       \/ \E data \in {c \in Chunks : Len(c) \in {1, MaxChunk}} :
             SetSess(OnData(Sess, file_handle, FALSE, data, FALSE, 0, 0, 0))
       \/ SetSess(flush_write_buffer(Sess, file_handle, WRITE_BUFFER_SIZE))
    /\ UNCHANGED <<evt, file_handle, pc, attempt, ret, result, events,
                   disk_exists, run_history, delivered>>

\* line 154: esp_http_client_perform returns
PerformReturns ==
    /\ pc = "perform"
    /\ \E r \in {ESP_OK, ESP_FAIL} : ret' = r
    /\ evt' = NoEvent
    /\ pc' = "flush"
    /\ UNCHANGED <<globals, attempt, result, events, disk, disk_exists, run_history,
                   attempt_history>>

\* line 157: the final flush
FinalFlush ==
    /\ pc = "flush"
    /\ \E room \in 0..WRITE_BUFFER_SIZE :
         SetSess(flush_write_buffer(Sess, file_handle, room))
    /\ pc' = "close"
    /\ UNCHANGED <<evt, file_handle, attempt, ret, result, events,
                   disk_exists, run_history, delivered>>

\* mutant: the sink is left open when the attempt ends in a storage error
CloseSink_SkipOnError ==
    /\ pc = "close"
    /\ IF storage_error
       THEN UNCHANGED <<file_handle, sinks, closes>>
       ELSE /\ file_handle' = NULL
            /\ sinks' = sinks - 1
            /\ closes' = closes + 1
    /\ outcomes' = Append(outcomes, <<ret, storage_error>>)
    /\ pc' = "decide"
    /\ UNCHANGED <<evt, total_bytes, storage_error, write_buffer, buffer_offset,
                   attempt, ret, result, events, disk, disk_exists, sleeps,
                   performs, clients, inits, cleanups, opens, warned,
                   attempt_history>>

\* lines 159-160: fclose
CloseSink ==
    /\ pc = "close"
    /\ file_handle' = NULL
    /\ sinks' = sinks - 1
    /\ closes' = closes + 1
    /\ outcomes' = Append(outcomes, <<ret, storage_error>>)
    /\ pc' = "decide"
    /\ UNCHANGED <<evt, total_bytes, storage_error, write_buffer, buffer_offset,
                   attempt, ret, result, events, disk, disk_exists, sleeps, performs,
                   clients, inits, cleanups, opens, warned, attempt_history>>

\* mutant: a storage error is retried like a transport failure
Outcome_RetryOnStorage(r, se) ==
    IF r = ESP_OK /\ ~se THEN "success" ELSE "retry"

\* mutant: success is decided by the transport status alone
Outcome_IgnoreStorage(r, se) ==
    IF r = ESP_OK THEN "success"
    ELSE IF se THEN "storage" ELSE "retry"

\* lines 162, 180: which branch the attempt's end takes
Outcome(r, se) ==
    IF r = ESP_OK /\ ~se THEN "success"
    ELSE IF se THEN "storage" ELSE "retry"

\* line 170: speed < MIN_SPEED_BPS / 1024.0, the speed being total_bytes
\* over the elapsed seconds in doubles: a division by 0 gives inf or NaN,
\* and neither compares below the threshold
SpeedBelow(bytes, elapsed) ==
    elapsed > 0 /\ bytes < MIN_SPEED_BPS * elapsed

\* mutant: a download below the speed threshold is rejected
DownloadComplete_FailsWhenSlow ==
    /\ pc = "decide"
    /\ Outcome(ret, storage_error) = "success"
    /\ \E elapsed \in 0..MaxElapsed :
         /\ warned' = SpeedBelow(total_bytes, elapsed)
         /\ Return(IF SpeedBelow(total_bytes, elapsed) THEN ESP_FAIL ELSE ESP_OK)
    /\ Cleanup
    /\ UNCHANGED <<evt, globals, attempt, ret, events, disk, disk_exists,
                   sleeps, performs, outcomes, sinks, inits, opens, closes,
                   attempt_history>>

\* lines 162-176: the download is complete
DownloadComplete ==
    /\ pc = "decide"
    /\ Outcome(ret, storage_error) = "success"
    /\ \E elapsed \in 0..MaxElapsed : warned' = SpeedBelow(total_bytes, elapsed)
    /\ Cleanup
    /\ Return(ESP_OK)
    /\ UNCHANGED <<evt, globals, attempt, ret, events, disk, disk_exists, sleeps, performs,
                   outcomes, sinks, inits, opens, closes, attempt_history>>

\* mutant: the early return on a storage error forgets the client
AbortStorage_NoCleanup ==
    /\ pc = "decide"
    /\ Outcome(ret, storage_error) = "storage"
    /\ Return(ESP_FAIL)
    /\ UNCHANGED <<evt, globals, attempt, ret, events, disk, disk_exists, sleeps,
                   performs, outcomes, clients, cleanups, sinks, inits, opens,
                   closes, warned, attempt_history>>

\* lines 180-184: abort on a storage error
AbortStorage ==
    /\ pc = "decide"
    /\ Outcome(ret, storage_error) = "storage"
    /\ Cleanup
    /\ Return(ESP_FAIL)
    /\ UNCHANGED <<evt, globals, attempt, ret, events, disk, disk_exists, sleeps, performs,
                   outcomes, sinks, inits, opens, closes, warned,
                   attempt_history>>

\* mutant: the shift is by attempt instead of attempt - 1
backoff_ms_Shifted(a) == BACKOFF_BASE_MS * Pow2(a)

\* line 187: BACKOFF_BASE_MS * (1 << (attempt - 1)), a C int; attempt is at
\* most MAX_RETRIES, so the product is at most 4000 and never wraps
backoff_ms(a) == BACKOFF_BASE_MS * Pow2(a - 1)

\* lines 186-189: backoff sleep
Backoff ==
    /\ pc = "decide"
    /\ Outcome(ret, storage_error) = "retry"
    /\ sleeps' = Append(sleeps, backoff_ms(attempt))
    /\ pc' = "cleanup"
    /\ UNCHANGED <<evt, globals, attempt, ret, result, events, disk, disk_exists, performs,
                   outcomes, clients, sinks, inits, cleanups, opens, closes,
                   warned, attempt_history>>

\* lines 192-195 and 120: cleanup, attempt++, loop test, return ESP_FAIL
EndAttempt ==
    /\ pc = "cleanup"
    /\ Cleanup
    /\ attempt' = attempt + 1
    /\ IF LoopContinues(attempt + 1)
       THEN pc' = "init" /\ UNCHANGED result
       ELSE Return(ESP_FAIL)
    /\ UNCHANGED <<evt, globals, ret, events, disk, disk_exists, sleeps, performs,
                   outcomes, sinks, inits, opens, closes, warned,
                   attempt_history>>

Next ==
    \/ ClientInit
    \/ OpenSink
    \/ StartAttempt
    \/ InfoEvent
    \/ DataEvent
    \/ FinishEvent
    \/ StrayEvent
    \/ PerformReturns
    \/ FinalFlush
    \/ CloseSink
    \/ DownloadComplete
    \/ AbortStorage
    \/ Backoff
    \/ EndAttempt

Spec == Init /\ [][Next]_vars

\* every step of the program is eventually taken: the code is sequential and
\* each call returns
FairSpec == Spec /\ WF_vars(Next)

(* ------------------------------ properties ----------------------------- *)
\* the final flush of the last performed attempt has run
AttemptEnded == performs > 0 /\ pc \notin {"perform", "flush"}

Last(q) == q[Len(q)]

\* C1: an attempt that ends with storage_error latched is the last one: no
\* backoff sleep follows it, no further attempt starts, and the operation
\* returns failure, whatever the attempt's number.
C1_StorageErrorNotRetried ==
    \A i \in 1..Len(outcomes) :
        outcomes[i][2] =>
            /\ i = Len(outcomes)
            /\ attempt = i
            /\ performs = i
            /\ Len(sleeps) = i - 1
            /\ pc \in {"decide", "done"}
            /\ pc = "done" => result = ESP_FAIL

C1_Witness ==
    /\ pc = "done"
    /\ attempt = 2
    /\ Len(outcomes) = 2
    /\ outcomes[2] = <<ESP_FAIL, TRUE>>
    /\ latched_by = "space"

\* C2 (as claimed): after a transport failure in the last allowed attempt no
\* backoff sleep is performed, so a run never has more than MAX_RETRIES - 1
\* sleeps.
C2_NoSleepAfterLastAttempt ==
    /\ Len(sleeps) <= MAX_RETRIES - 1
    /\ (attempt = MAX_RETRIES /\ pc \in {"cleanup", "done"}) =>
           Len(sleeps) < MAX_RETRIES

\* C3: the i-th backoff sleep follows i transport failures without storage
\* error and lasts BACKOFF_BASE_MS * 2^(i-1) ms.
C3_BackoffDoubles ==
    \A i \in 1..Len(sleeps) :
        /\ sleeps[i] = BACKOFF_BASE_MS * 2^(i - 1)
        /\ i <= Len(outcomes)
        /\ outcomes[i] = <<ESP_FAIL, FALSE>>

C3_Witness ==
    /\ pc = "perform"
    /\ attempt = 3
    /\ sleeps = <<1000, 2000>>

\* C4: perform is called at most MAX_RETRIES times; after MAX_RETRIES
\* transport failures the operation returns failure without a further
\* attempt; and the operation terminates.
C4_Bounded ==
    /\ performs <= MAX_RETRIES
    /\ performs <= attempt
    /\ (Len(outcomes) = MAX_RETRIES /\ Last(outcomes) = <<ESP_FAIL, FALSE>>) =>
          /\ pc \in {"decide", "cleanup", "done"}
          /\ pc = "done" => result = ESP_FAIL

C4_Exhaustion == [](C4_Bounded) /\ <>(pc = "done")

C4_Witness ==
    /\ pc = "done"
    /\ result = ESP_FAIL
    /\ performs = MAX_RETRIES
    /\ \A i \in 1..MAX_RETRIES : outcomes[i] = <<ESP_FAIL, FALSE>>

\* C5: every write is of 1..WRITE_BUFFER_SIZE bytes, and once the final
\* flush of an attempt without storage error has run, the sizes of the
\* writes add up to the number of bytes the data events delivered.
C5_BufferConservation ==
    /\ \A i \in 1..Len(writes) : writes[i] \in 1..WRITE_BUFFER_SIZE
    /\ (AttemptEnded /\ ~storage_error) => Sum(writes) = Len(delivered)

C5_Witness ==
    /\ pc = "close"
    /\ ~storage_error
    /\ Len(delivered) = 2 * WRITE_BUFFER_SIZE + 1
    /\ Len(writes) = 3
    /\ Last(writes) = 1

\* C6 (as claimed): after any attempt ends the fill level is 0, and the
\* session counters are reset when the next perform call begins.
C6_FillZeroAfterAttempt ==
    /\ AttemptEnded => buffer_offset = 0
    /\ (pc = "perform" /\ events = 0) =>
          (total_bytes = 0 /\ ~storage_error /\ buffer_offset = 0)

\* C6 (amended): after an attempt ends the fill level is 0 unless the
\* free-space check latched storage_error, in which case the bytes buffered
\* before it stay in the buffer (fewer than WRITE_BUFFER_SIZE) and the
\* operation returns failure; the session counters are reset when a perform
\* call begins.
C6_FillZeroUnlessOutOfSpace ==
    /\ (AttemptEnded /\ latched_by /= "space") => buffer_offset = 0
    /\ (AttemptEnded /\ latched_by = "space") =>
          /\ storage_error
          /\ buffer_offset < WRITE_BUFFER_SIZE
          /\ pc \in {"close", "decide", "done"}
          /\ pc = "done" => result = ESP_FAIL
    /\ (pc = "perform" /\ events = 0) =>
          (total_bytes = 0 /\ ~storage_error /\ buffer_offset = 0)

C6_Witness ==
    /\ pc = "done"
    /\ latched_by = "write"
    /\ Len(delivered) > WRITE_BUFFER_SIZE
    /\ buffer_offset = 0

\* C7: on success the destination file holds exactly the bytes the data
\* events of the final attempt delivered, in order, and its size is
\* total_bytes.
C7_FileIsFinalAttempt ==
    (pc = "done" /\ result = ESP_OK) =>
        /\ disk_exists
        /\ disk = delivered
        /\ total_bytes = Len(disk)

C7_Witness ==
    /\ pc = "done"
    /\ result = ESP_OK
    /\ attempt = 2
    /\ Len(disk) > WRITE_BUFFER_SIZE

\* C8: the operation returns success exactly when the last attempt it
\* performed ended with transport success and no storage error; every
\* attempt before it was a transport failure followed by one backoff sleep.
C8_SuccessIff ==
    pc = "done" =>
        /\ result = ESP_OK <=>
              (Len(outcomes) > 0 /\ Last(outcomes) = <<ESP_OK, FALSE>>)
        /\ result = ESP_OK =>
              /\ Len(sleeps) = Len(outcomes) - 1
              /\ \A i \in 1..(Len(outcomes) - 1) :
                    outcomes[i] = <<ESP_FAIL, FALSE>>

C8_Witness ==
    /\ pc = "done"
    /\ result = ESP_OK
    /\ Len(outcomes) = 3
    /\ Len(sleeps) = 2

\* the operation returned from attempt k because the client could not be
\* initialised or the destination could not be opened
SetupFailedIn(k) == pc = "done" /\ attempt = k /\ opens = k - 1

\* C9: a setup failure in attempt k returns failure at once: perform was
\* called k - 1 times, k - 1 sleeps were performed, nothing follows.
C9_SetupFailureIsFatal ==
    \A k \in 1..MAX_RETRIES :
        SetupFailedIn(k) =>
            /\ result = ESP_FAIL
            /\ performs = k - 1
            /\ Len(outcomes) = k - 1
            /\ Len(sleeps) = k - 1
            /\ file_handle = NULL

C9_Witness ==
    /\ SetupFailedIn(1)
    /\ inits = 1
    /\ performs = 0
    /\ sleeps = <<>>

\* C10: at most one client and one sink are held at a time, and when the
\* operation returns every client initialised was cleaned up and every sink
\* opened was closed.
C10_NoLeak ==
    /\ clients \in {0, 1}
    /\ sinks \in {0, 1}
    /\ clients = inits - cleanups
    /\ sinks = opens - closes
    /\ (file_handle /= NULL) <=> (sinks = 1)
    /\ pc = "done" => (clients = 0 /\ sinks = 0)

C10_Witness ==
    /\ pc = "done"
    /\ inits = 2
    /\ cleanups = 2
    /\ opens = 2
    /\ closes = 2
    /\ storage_error

\* the step is the dispatch of one event with the given id to the handler
Dispatched(id) ==
    /\ pc = "perform"
    /\ events' = events + 1
    /\ evt'.id = id

\* bytes the copy loop of the last data event moved into the buffer
Copied(iters) == Sum([j \in DOMAIN iters |-> iters[j][2]])

C11_Released ==
    pc \in {"decide", "cleanup"} =>
        /\ file_handle = NULL
        /\ sinks = 0
        /\ closes = opens
        /\ clients = 1

C11_Step ==
    /\ (pc' = "flush" /\ pc /= "flush") => pc = "perform"
    /\ (pc' = "close" /\ pc /= "close") => pc = "flush"
    /\ closes' /= closes =>
          /\ pc = "close"
          /\ closes' = closes + 1
          /\ cleanups' = cleanups
    /\ cleanups' /= cleanups =>
          /\ file_handle = NULL
          /\ sinks = 0
          /\ closes = opens
          /\ cleanups' = cleanups + 1
    /\ sleeps' /= sleeps =>
          /\ closes = opens
          /\ file_handle = NULL
          /\ clients = 1
          /\ cleanups' = cleanups

\* C11: in an attempt whose sink was opened the steps run in the order
\* perform returns, final flush, sink close, client cleanup; the sink is
\* closed whatever the outcome and always before the client is released,
\* and the backoff sleep of a retry comes before the client cleanup.
C11_ReleaseOrder == [](C11_Released) /\ [][C11_Step]_vars

C11_Witness ==
    /\ pc = "cleanup"
    /\ attempt = 2
    /\ Len(sleeps) = 2
    /\ closes = 2
    /\ cleanups = 1
    /\ clients = 1
    /\ file_handle = NULL

C12_WarnsOnly ==
    warned => (pc = "done" /\ result = ESP_OK /\ ~storage_error)

C12_Step ==
    (pc = "decide" /\ ret = ESP_OK /\ ~storage_error /\ pc' /= pc) =>
        /\ pc' = "done"
        /\ result' = ESP_OK
        /\ UNCHANGED <<attempt, performs, sleeps, disk, disk_exists,
                       total_bytes, storage_error>>

\* C12: whatever the elapsed time and so the measured speed, an attempt
\* whose transfer succeeded without storage error ends the operation with
\* success, with no further attempt and no change to the file; a speed
\* below the threshold only raises the warning.
C12_SpeedIsAdvisory == [](C12_WarnsOnly) /\ [][C12_Step]_vars

C12_Witness ==
    /\ pc = "done"
    /\ warned
    /\ result = ESP_OK
    /\ total_bytes > 0
    /\ disk = delivered
    /\ performs = 1

C13_Step ==
    /\ (storage_error /\ ~storage_error') => pc = "start"
    /\ (storage_error /\ Dispatched("HTTP_EVENT_ON_DATA")) =>
          /\ UNCHANGED <<write_buffer, buffer_offset, total_bytes, disk, writes,
                         storage_error, latched_by>>
          /\ evt'.iters = <<>>
          /\ pc' = "perform"

\* C13: once storage_error is set it stays set until the reset at the start
\* of the next attempt, and every data event delivered meanwhile copies no
\* byte, writes nothing and leaves total_bytes alone, while the transfer
\* goes on.
C13_LatchHolds == [][C13_Step]_vars

C13_Witness ==
    /\ pc = "perform"
    /\ storage_error
    /\ latched_by = "space"
    /\ evt.id = "HTTP_EVENT_ON_DATA"
    /\ evt.data_len > 0
    /\ Len(delivered) > evt.data_len
    /\ writes = <<>>
    /\ buffer_offset = 0

C14_Step ==
    (/\ Dispatched("HTTP_EVENT_ON_DATA")
     /\ ~evt'.data_null
     /\ evt'.data_len > 0
     /\ ~storage_error) =>
        IF evt'.info_ok /\ evt'.free_space < evt'.data_len
        THEN /\ storage_error'
             /\ latched_by' = "space"
             /\ evt'.iters = <<>>
             /\ UNCHANGED <<write_buffer, buffer_offset, total_bytes, disk,
                            writes>>
        ELSE /\ latched_by' /= "space"
             /\ evt'.iters /= <<>>
             /\ ~storage_error' =>
                   /\ Copied(evt'.iters) = evt'.data_len
                   /\ total_bytes' + buffer_offset'
                        = total_bytes + buffer_offset + evt'.data_len

\* C14: a data event handled without storage error is refused as a whole,
\* latching storage_error with the buffer untouched, when the free-space
\* query succeeds and reports less than the chunk length; when it reports
\* at least the chunk length or fails, the whole chunk goes to the copy loop.
C14_FreeSpaceCheck == [][C14_Step]_vars

C14_Witness ==
    /\ pc = "perform"
    /\ evt.id = "HTTP_EVENT_ON_DATA"
    /\ evt.info_ok
    /\ evt.free_space = evt.data_len - 1
    /\ evt.iters = <<>>
    /\ latched_by = "space"
    /\ buffer_offset = 1

C15_Step ==
    (Dispatched("HTTP_EVENT_ON_FINISH") /\ ~storage_error) =>
        IF buffer_offset > 0
        THEN /\ writes' = Append(writes, buffer_offset)
             /\ buffer_offset' = 0
             /\ IF storage_error'
                THEN total_bytes' = total_bytes
                ELSE /\ total_bytes' = total_bytes + buffer_offset
                     /\ disk' = disk \o SubSeq(write_buffer, 1, buffer_offset)
        ELSE UNCHANGED <<writes, buffer_offset, total_bytes, disk,
                         storage_error>>

\* C15: a finish event arriving without storage error flushes the buffer at
\* whatever fill level k: one write of k bytes when k > 0, after which the
\* buffer is empty and, if the sink took all k, total_bytes grew by k; no
\* write at all when the buffer is empty.
C15_FinishFlushes == [][C15_Step]_vars

C15_Witness ==
    /\ pc = "perform"
    /\ evt.id = "HTTP_EVENT_ON_FINISH"
    /\ ~storage_error
    /\ writes /= <<>>
    /\ Last(writes) < WRITE_BUFFER_SIZE
    /\ buffer_offset = 0
    /\ total_bytes = Len(delivered)

C16_Counted ==
    /\ performs > 0 =>
          total_bytes = Sum(writes)
                          - (IF latched_by = "write" THEN Last(writes) ELSE 0)
    /\ latched_by = "write" =>
          /\ storage_error
          /\ buffer_offset = 0
          /\ total_bytes <= Len(disk)
          /\ Len(disk) < Sum(writes)

C16_Step ==
    /\ pc /= "start" =>
          /\ total_bytes' >= total_bytes
          /\ total_bytes' /= total_bytes =>
                /\ pc \in {"perform", "flush"}
                /\ writes' /= writes
                /\ total_bytes' - total_bytes
                     = Sum(writes') - Sum(writes)
                         - (IF latched_by' = "write" THEN Last(writes') ELSE 0)
          /\ latched_by = "write" =>
                UNCHANGED <<writes, total_bytes, disk, buffer_offset>>
    /\ (Dispatched("HTTP_EVENT_ON_DATA") /\ latched_by /= "write"
          /\ latched_by' = "write") =>
          /\ total_bytes' = total_bytes + Sum(writes') - Sum(writes)
                                         - Last(writes')
          /\ LET it == evt'.iters
             IN  /\ it /= <<>>
                 /\ Last(it)[1] + Last(it)[2] = WRITE_BUFFER_SIZE
                 /\ Copied(it) <= evt'.data_len

\* C16: within an attempt total_bytes never decreases and grows only in a
\* flush whose write was complete, by exactly the bytes of that write; a
\* short write latches storage_error and leaves total_bytes as it was, is
\* not retried, and the bytes of the chunk not yet copied are dropped.
C16_TotalCountsFullWrites == [](C16_Counted) /\ [][C16_Step]_vars

C16_Witness ==
    /\ pc = "perform"
    /\ latched_by = "write"
    /\ evt.id = "HTTP_EVENT_ON_DATA"
    /\ Copied(evt.iters) < evt.data_len
    /\ writes = <<WRITE_BUFFER_SIZE>>
    /\ total_bytes = 0
    /\ Len(disk) = 1

C17_Step ==
    (\E id \in InfoEvents : Dispatched(id)) =>
        UNCHANGED <<globals, disk, disk_exists, writes, latched_by, pc, ret,
                    result>>

\* C17: the error, connected, header-sent, header, disconnected and redirect
\* events leave buffer_offset, the buffer content, total_bytes, storage_error,
\* the sink and the transfer result untouched, so an error event by itself
\* does not fail the attempt.
C17_InfoEventsFrame == [][C17_Step]_vars

C17_Witness ==
    /\ pc = "perform"
    /\ evt.id = "HTTP_EVENT_ERROR"
    /\ ~storage_error
    /\ buffer_offset = 1
    /\ total_bytes = WRITE_BUFFER_SIZE

FullWrites(n) == [i \in 1..n |-> WRITE_BUFFER_SIZE]

\* the writes of a stream of n bytes followed by its end
IdealWrites(n) ==
    FullWrites(n \div WRITE_BUFFER_SIZE)
      \o (IF n % WRITE_BUFFER_SIZE > 0 THEN <<n % WRITE_BUFFER_SIZE>> ELSE <<>>)

\* no partial write has happened yet: the end of the stream has not been seen
OnlyFullWrites == \A i \in DOMAIN writes : writes[i] = WRITE_BUFFER_SIZE

\* no data was accepted after a partial write: the stream ended once
TailWrittenLast ==
    \A i \in DOMAIN writes : i < Len(writes) => writes[i] = WRITE_BUFFER_SIZE

C18_Shape ==
    /\ (pc \in {"perform", "flush"} /\ ~storage_error /\ OnlyFullWrites) =>
          /\ writes = FullWrites(Len(delivered) \div WRITE_BUFFER_SIZE)
          /\ buffer_offset = Len(delivered) % WRITE_BUFFER_SIZE
    /\ (pc \in {"close", "decide"} /\ ~storage_error /\ TailWrittenLast) =>
          writes = IdealWrites(Len(delivered))

C18_Step ==
    Dispatched("HTTP_EVENT_ON_DATA") =>
        /\ Len(writes') >= Len(writes)
        /\ \A i \in (Len(writes) + 1)..Len(writes') :
              writes'[i] = WRITE_BUFFER_SIZE

\* C18: for a stream of N bytes followed by its end, with no storage error,
\* the sink sees floor(N / WRITE_BUFFER_SIZE) writes of WRITE_BUFFER_SIZE
\* bytes, each issued by the data event that fills the buffer, followed by
\* one write of N mod WRITE_BUFFER_SIZE bytes when that is not zero.
C18_WriteShape == [](C18_Shape) /\ [][C18_Step]_vars

C18_Witness ==
    /\ pc = "perform"
    /\ evt.id = "HTTP_EVENT_ON_FINISH"
    /\ ~storage_error
    /\ events = 2
    /\ Len(delivered) = WRITE_BUFFER_SIZE + 1
    /\ writes = <<WRITE_BUFFER_SIZE, 1>>

\* C19: buffer_offset is always between 0 and WRITE_BUFFER_SIZE; every
\* iteration of the copy loop starts with buffer_offset below
\* WRITE_BUFFER_SIZE, copies at least one byte and never copies past the end
\* of the buffer, so the loop ends within as many iterations as the chunk
\* has bytes.
C19_OffsetInRange ==
    /\ buffer_offset \in 0..WRITE_BUFFER_SIZE
    /\ Len(evt.iters) <= evt.data_len
    /\ \A j \in DOMAIN evt.iters :
          /\ evt.iters[j][1] \in 0..(WRITE_BUFFER_SIZE - 1)
          /\ evt.iters[j][2] >= 1
          /\ evt.iters[j][1] + evt.iters[j][2] <= WRITE_BUFFER_SIZE

C19_Witness ==
    /\ pc = "perform"
    /\ Len(evt.iters) = 2
    /\ evt.iters[1] = <<WRITE_BUFFER_SIZE - 1, 1>>
    /\ evt.iters[2][1] = 0
    /\ evt.data_len = MaxChunk
    /\ ~storage_error

C20_Window ==
    /\ file_handle /= NULL <=> pc \in {"start", "perform", "flush", "close"}
    /\ opens = closes + (IF file_handle /= NULL THEN 1 ELSE 0)

C20_Step ==
    /\ file_handle = NULL =>
          UNCHANGED <<buffer_offset, total_bytes, write_buffer, writes,
                      storage_error>>
    /\ (file_handle = NULL /\ pc /= "open") => disk' = disk
    /\ (writes' /= writes /\ writes' /= <<>>) =>
          (file_handle = OPEN /\ file_handle' = OPEN)

\* C20: file_handle is non-null exactly from a successful open to the close
\* of the same attempt; no write is issued while it is null, and a data
\* event, finish event or flush arriving then changes neither buffer_offset
\* nor total_bytes.
C20_NoWriteOutsideWindow == [](C20_Window) /\ [][C20_Step]_vars

C20_Witness ==
    /\ pc = "done"
    /\ file_handle = NULL
    /\ result = ESP_OK
    /\ ~storage_error
    /\ buffer_offset = 0
    /\ total_bytes = MaxChunk
    /\ closes = 1

=============================================================================
